---- MODULE Spec2Model ----
(***************************************************************************)
(* DAO governance simulation (dao_simulation_ganache.py): run_full seeds   *)
(* the random stream, connects to the ledger, deploys DAOGovernance, and   *)
(* for i = 1..NUM_RUNS submits one executeDecision transaction, waits for  *)
(* its receipt, draws five truncated-normal metrics, classifies them and   *)
(* appends one row; after the loop the rows are written to the workbook.   *)
(*                                                                         *)
(* Numbers.  Metric values are fixed point, Unit = 10^4 steps per 1.0, so  *)
(* 80.0 is 800000 and -0.0001 is -1.  Standard normal deviates are in      *)
(* thousandths (ZUnit).  Gas is in gas units, the gas price in gwei, their *)
(* product in 10^-9 ETH.                                                   *)
(***************************************************************************)
EXTENDS Integers, Sequences, FiniteSets, TLC

(* ------------------------------ bounds --------------------------------- *)

\* run_full is explored for every totalRuns in 0..MaxRuns (NUM_RUNS in the source)
MaxRuns == 4
\* and for every seed in 0..MaxSeed (RANDOM_SEED in the source)
MaxSeed == 7

(* --------------------------- fixed point ------------------------------- *)

Unit == 100 * 100
ZUnit == 10 * 100

\* Python's round(): to the nearest multiple of step, an exact half to the
\* even multiple.  The result is the multiple's index (x / step, rounded).
RoundHalfEven(x, step) ==
    LET q == x \div step
        r == x % step
    IN  IF 2 * r < step THEN q
        ELSE IF 2 * r > step THEN q + 1
        ELSE IF q % 2 = 0 THEN q ELSE q + 1

\* round(x, ndigits) for ndigits = 1, 2: the rounded value, in Unit steps
Round1(x) == RoundHalfEven(x, Unit \div 10) * (Unit \div 10)
Round2(x) == RoundHalfEven(x, Unit \div 100) * (Unit \div 100)
\* int(round(x)): the integer itself
RoundInt(x) == RoundHalfEven(x, Unit)

(* ------------------------ program constants ---------------------------- *)

Labels == <<"DAO 1.0", "DAO 2.0", "DAO 3.0">>

DAO_STATS ==
    [l \in {"DAO 1.0", "DAO 2.0", "DAO 3.0"} |->
        CASE l = "DAO 1.0" ->
               [id |-> 1,
                lat_mean |-> 158000, lat_std |-> 10000,
                comp_mean |-> 710000, comp_std |-> 30000,
                total_cost_mean |-> 119000 * Unit, total_cost_std |-> 5600 * Unit,
                roi_mean |-> 10200, roi_std |-> 5000]
          [] l = "DAO 2.0" ->
               [id |-> 2,
                lat_mean |-> 94000, lat_std |-> 10000,
                comp_mean |-> 830000, comp_std |-> 30000,
                total_cost_mean |-> 90000 * Unit, total_cost_std |-> 4500 * Unit,
                roi_mean |-> 40000, roi_std |-> 5000]
          [] l = "DAO 3.0" ->
               [id |-> 3,
                lat_mean |-> 42000, lat_std |-> 11000,
                comp_mean |-> 975000, comp_std |-> 24000,
                total_cost_mean |-> 55000 * Unit, total_cost_std |-> 2600 * Unit,
                roi_mean |-> 75000, roi_std |-> 5000]]

OFFCHAIN_MEAN == 3000000
OFFCHAIN_STD == 400000
OFFCHAIN_MIN == 1700000
OFFCHAIN_MAX == 4200000

LATENCY_MIN == 15000
LATENCY_MAX == 190000

COMPLIANCE_MIN == 600000
COMPLIANCE_MAX == 1000000

ROI_MIN == -5000
ROI_MAX == 90000

COMPLIANCE_VIOLATION_THRESHOLD == 800000
\* the literal 65 of the rejection test
REJECT_COMPLIANCE == 650000

(* --------------------------- random stream ----------------------------- *)

\* The generator behind random.seed / random.gauss, reduced to a full-period
\* congruential generator over RngModulus states: set_seed fixes the state,
\* every gauss() call reads one standard normal deviate off the state and
\* advances it.  ZVals[s + 1] is the deviate (in thousandths) of state s; it
\* holds typical values, values that land a metric on or next to a threshold,
\* and values far enough out (|z| > 3) to be rejected by every bound.
RngModulus == 4 * 4

ZVals ==
    << 0, -500, 500, -1010, -2044, -3500, -2010, 1000,
       3500, -250, 250, -1000, 2000, 3000, 1500, -2040 >>

set_seed(s) == s % RngModulus

RngNext(st) == (5 * st + 3) % RngModulus

\* random.gauss(mu, sigma) in state st: mu + z * sigma
Gauss(st, mu, sigma) == mu + ZVals[st + 1] * (sigma \div ZUnit)

\* the state after n draws
RECURSIVE RngAdvance(_, _)
RngAdvance(st, n) == IF n = 0 THEN st ELSE RngAdvance(RngNext(st), n - 1)

\* A sampler without the range test: the first draw is returned as it is.
truncated_normal_unchecked(st, mu, sigma, low, high) ==
    [x |-> Gauss(st, mu, sigma), st |-> RngNext(st), n |-> 1]

\* truncated_normal(mu, sigma, low, high) started in state st: draws until a
\* draw lies in [low, high]; x is the draw returned, st the state left behind,
\* n the number of draws consumed.
RECURSIVE truncated_normal(_, _, _, _, _)
truncated_normal(st, mu, sigma, low, high) ==
    LET x == Gauss(st, mu, sigma)
    IN  IF low <= x /\ x <= high
        THEN [x |-> x, st |-> RngNext(st), n |-> 1]
        ELSE LET rest == truncated_normal(RngNext(st), mu, sigma, low, high)
             IN  [x |-> rest.x, st |-> rest.st, n |-> rest.n + 1]

(* ----------------------------- sequencing ------------------------------ *)

RECURSIVE RepeatSeq(_, _)
RepeatSeq(s, k) == IF k = 0 THEN <<>> ELSE s \o RepeatSeq(s, k - 1)

\* s[:n]
Take(s, n) == SubSeq(s, 1, IF n < Len(s) THEN n ELSE Len(s))

\* A slice that starts one element late: s[1:n+1].
dao_sequence_shifted(n) ==
    LET rep == RepeatSeq(Labels, (n \div 3) + 1)
    IN  SubSeq(rep, 2, IF n + 1 < Len(rep) THEN n + 1 ELSE Len(rep))

\* (seq * ((n // 3) + 1))[:n]
dao_sequence(n) == Take(RepeatSeq(Labels, (n \div 3) + 1), n)

\* A loop that stops one run early: range(1, NUM_RUNS).
LoopFinishedEarly(idx, n) == idx >= n

\* range(1, NUM_RUNS + 1) is exhausted
LoopFinished(idx, n) == idx > n

(* ---------------------------- classification -------------------------- *)

\* A violation test that includes the threshold itself.
ComplianceViolationInclusive(comp) ==
    IF comp <= COMPLIANCE_VIOLATION_THRESHOLD THEN "Y" ELSE "N"

\* violation = "Y" if comp < COMPLIANCE_VIOLATION_THRESHOLD else "N"
ComplianceViolation(comp) ==
    IF comp < COMPLIANCE_VIOLATION_THRESHOLD THEN "Y" ELSE "N"

\* decision_outcome = "Rejected" if roi < 0 or comp < 65 else "Accepted"
DecisionOutcome(roi, comp) ==
    IF roi < 0 \/ comp < REJECT_COMPLIANCE THEN "Rejected" ELSE "Accepted"

(* ------------------------------ one run -------------------------------- *)

\* The five draws of simulate_one for the profile of label, started in stream
\* state st, in the order of the code: lat, comp, offchain, total, roi.
Synthesize(st, label) ==
    LET s == DAO_STATS[label]
        lat == truncated_normal(st, s.lat_mean, s.lat_std, LATENCY_MIN, LATENCY_MAX)
        comp == truncated_normal(lat.st, s.comp_mean, s.comp_std,
                                 COMPLIANCE_MIN, COMPLIANCE_MAX)
        offchain == truncated_normal(comp.st, OFFCHAIN_MEAN, OFFCHAIN_STD,
                                     OFFCHAIN_MIN, OFFCHAIN_MAX)
        total == truncated_normal(offchain.st, s.total_cost_mean, s.total_cost_std,
                                  s.total_cost_mean - 3 * s.total_cost_std,
                                  s.total_cost_mean + 3 * s.total_cost_std)
        roi == truncated_normal(total.st, s.roi_mean, s.roi_std, ROI_MIN, ROI_MAX)
    IN  [lat |-> lat.x, comp |-> comp.x, offchain |-> offchain.x,
         total |-> total.x, roi |-> roi.x,
         st |-> roi.st,
         n |-> lat.n + comp.n + offchain.n + total.n + roi.n]

\* gas_used * gas_price / 1e18, rounded to 6 decimals: in 10^-6 ETH
GasCost(gas_used, gas_price) == RoundHalfEven(gas_used * gas_price, 1000)

\* A row whose two flags are computed from the rounded values it stores.
RunRecordFromRounded(idx, label, m, gas_cost) ==
    [SimulationID |-> idx,
     DAOGen |-> label,
     Latency |-> Round2(m.lat),
     Compliance |-> Round1(m.comp),
     GasCost |-> gas_cost,
     OffChainCost |-> RoundInt(m.offchain),
     TotalCost |-> RoundInt(m.total),
     DecisionOutcome |-> DecisionOutcome(Round2(m.roi), Round1(m.comp)),
     ROI |-> Round2(m.roi),
     ComplianceViolation |-> ComplianceViolation(Round1(m.comp))]

\* The row simulate_one returns: the flags from the unrounded draws, the
\* metrics rounded.
RunRecord(idx, label, m, gas_cost) ==
    [SimulationID |-> idx,
     DAOGen |-> label,
     Latency |-> Round2(m.lat),
     Compliance |-> Round1(m.comp),
     GasCost |-> gas_cost,
     OffChainCost |-> RoundInt(m.offchain),
     TotalCost |-> RoundInt(m.total),
     DecisionOutcome |-> DecisionOutcome(m.roi, m.comp),
     ROI |-> Round2(m.roi),
     ComplianceViolation |-> ComplianceViolation(m.comp)]

\* The synthesized fields of a row: everything but the ledger-derived gas cost.
Metrics(r) ==
    [Latency |-> r.Latency, Compliance |-> r.Compliance,
     OffChainCost |-> r.OffChainCost, TotalCost |-> r.TotalCost,
     ROI |-> r.ROI, DecisionOutcome |-> r.DecisionOutcome,
     ComplianceViolation |-> r.ComplianceViolation]

\* A call that passes the 0-based list index as the proposal id.
DecisionCallZeroBased(idx, label) ==
    [proposalId |-> idx - 1, daoVersion |-> DAO_STATS[label].id]

\* contract.functions.executeDecision(proposal_id, dao_id)
DecisionCall(idx, label) ==
    [proposalId |-> idx, daoVersion |-> DAO_STATS[label].id]

(* ----------------------------- the contract ---------------------------- *)

\* A contract that writes the decision before it increments the counter.
executeDecisionStoreFirst(count, decs, proposalId, daoVersion, executor) ==
    [decisionCount |-> count + 1,
     decisions |-> [d \in (DOMAIN decs) \cup {count} |->
                      IF d = count
                      THEN [proposalId |-> proposalId, daoVersion |-> daoVersion,
                            executor |-> executor]
                      ELSE decs[d]]]

\* DAOGovernance.executeDecision on the state (decisionCount, decisions).
\* block.timestamp is left out: nothing in the engine reads it.
executeDecision(count, decs, proposalId, daoVersion, executor) ==
    [decisionCount |-> count + 1,
     decisions |-> [d \in (DOMAIN decs) \cup {count + 1} |->
                      IF d = count + 1
                      THEN [proposalId |-> proposalId, daoVersion |-> daoVersion,
                            executor |-> executor]
                      ELSE decs[d]]]

(* -------------------------------- state -------------------------------- *)

VARIABLES
    seed,           \* the value passed to set_seed
    totalRuns,      \* the number of runs of the loop
    pc,             \* where run_full stands
    error,          \* the exception that ended run_full, "none" while it runs
    rngState,       \* the state of the process-wide random stream
    accounts,       \* w3.eth.accounts
    sender,         \* accounts[0]
    contract,       \* the handle deploy_contract returned, "none" before
    seq,            \* dao_sequence(NUM_RUNS)
    i,              \* the loop index
    rows,           \* the rows appended so far
    tx_hash,        \* the transaction the engine waits on, 0 for none
    output,         \* the tables written by to_excel, in order
    pending,        \* ledger: transactions submitted and not yet mined
    receipts,       \* ledger: receipts of the mined transactions
    gas_price,      \* ledger: the gas price it quotes (w3.eth.gas_price)
    deployed,       \* ledger: DAOGovernance exists
    decisionCount,  \* contract storage
    decisions,      \* contract storage
    txLog,          \* history: every transaction the engine submitted, in order
    drawCount,      \* history: gauss() calls made so far
    raw,            \* history: the unrounded draws of every appended row
    runNo,          \* which execution of the program this is (1 or 2)
    prevRows,       \* the rows of the first execution, once a second one runs
    probe           \* classifier harness: one input pair and its result

inputVars == <<seed, totalRuns>>
engineVars == <<pc, error, rngState, accounts, sender, contract, seq, i, rows, tx_hash, output>>
ledgerVars == <<pending, receipts, gas_price, deployed, decisionCount, decisions>>
historyVars == <<txLog, drawCount, raw>>
harnessVars == <<runNo, prevRows, probe>>
vars == <<inputVars, engineVars, ledgerVars, historyVars, harnessVars>>

\* what the ledger may answer
AccountLists == {<<>>, <<"0xA0", "0xA1">>}
GasUsedVals(kind) == IF kind = "deploy" THEN {285000} ELSE {43700, 60800}
GasPrices == {1, 20}

NoProbe == [comp |-> 0, roi |-> 0, applied |-> FALSE, violation |-> "", outcome |-> ""]

\* the state of a process that has not run yet, on a ledger without the contract
Fresh ==
    /\ pc = "seed"
    /\ error = "none"
    /\ rngState = 0
    /\ accounts = <<>>
    /\ sender = "none"
    /\ contract = "none"
    /\ seq = <<>>
    /\ i = 0
    /\ rows = <<>>
    /\ tx_hash = 0
    /\ output = <<>>
    /\ pending = {}
    /\ receipts = {}
    /\ deployed = FALSE
    /\ decisionCount = 0
    /\ decisions = <<>>
    /\ txLog = <<>>
    /\ drawCount = 0
    /\ raw = <<>>

Init ==
    /\ seed \in 0..MaxSeed
    /\ totalRuns \in 0..MaxRuns
    /\ gas_price \in GasPrices
    /\ Fresh
    /\ runNo = 1
    /\ prevRows = <<>>
    /\ probe = NoProbe

(* ------------------------------- run_full ------------------------------ *)

Abort(err) ==
    /\ pc' = "aborted"
    /\ error' = err

\* A start that leaves the stream seeded from the system's entropy.
SetSeedFromEntropy ==
    /\ pc = "seed"
    /\ rngState' \in 0..(RngModulus - 1)
    /\ pc' = "connect"
    /\ UNCHANGED <<inputVars, error, accounts, sender, contract, seq, i, rows, tx_hash,
                   output, ledgerVars, historyVars, harnessVars>>

\* set_seed(RANDOM_SEED)
SetSeed ==
    /\ pc = "seed"
    /\ rngState' = set_seed(seed)
    /\ pc' = "connect"
    /\ UNCHANGED <<inputVars, error, accounts, sender, contract, seq, i, rows, tx_hash,
                   output, ledgerVars, historyVars, harnessVars>>

\* connect_ganache(): w3.is_connected() holds
Connect ==
    /\ pc = "connect"
    /\ pc' = "accounts"
    /\ UNCHANGED <<inputVars, error, rngState, accounts, sender, contract, seq, i, rows,
                   tx_hash, output, ledgerVars, historyVars, harnessVars>>

\* A connection check whose failure is reported and then ignored.
ConnectFailsIgnored ==
    /\ pc = "connect"
    /\ pc' = "accounts"
    /\ error' = "ConnectionError"
    /\ UNCHANGED <<inputVars, rngState, accounts, sender, contract, seq, i, rows,
                   tx_hash, output, ledgerVars, historyVars, harnessVars>>

\* connect_ganache(): not connected, ConnectionError
ConnectFails ==
    /\ pc = "connect"
    /\ Abort("ConnectionError")
    /\ UNCHANGED <<inputVars, rngState, accounts, sender, contract, seq, i, rows,
                   tx_hash, output, ledgerVars, historyVars, harnessVars>>

\* accounts = w3.eth.accounts; sender = accounts[0]
GetAccounts ==
    /\ pc = "accounts"
    /\ \E a \in AccountLists :
         /\ a # <<>>
         /\ accounts' = a
         /\ sender' = a[1]
    /\ pc' = "compile"
    /\ UNCHANGED <<inputVars, error, rngState, contract, seq, i, rows, tx_hash, output,
                   ledgerVars, historyVars, harnessVars>>

\* accounts is empty: RuntimeError
NoAccounts ==
    /\ pc = "accounts"
    /\ <<>> \in AccountLists
    /\ accounts' = <<>>
    /\ Abort("RuntimeError")
    /\ UNCHANGED <<inputVars, rngState, sender, contract, seq, i, rows, tx_hash, output,
                   ledgerVars, historyVars, harnessVars>>

\* compile_contract()
CompileContract ==
    /\ pc = "compile"
    /\ pc' = "deploy"
    /\ UNCHANGED <<inputVars, error, rngState, accounts, sender, contract, seq, i, rows,
                   tx_hash, output, ledgerVars, historyVars, harnessVars>>

\* install_solc or compile_standard raises
CompileFails ==
    /\ pc = "compile"
    /\ Abort("CompileError")
    /\ UNCHANGED <<inputVars, rngState, accounts, sender, contract, seq, i, rows,
                   tx_hash, output, ledgerVars, historyVars, harnessVars>>

\* the engine hands a transaction to the ledger
Submit(kind, call) ==
    LET h == Len(txLog) + 1
        tx == [hash |-> h, kind |-> kind, proposalId |-> call.proposalId,
               daoVersion |-> call.daoVersion, from |-> sender]
    IN  /\ txLog' = Append(txLog, tx)
        /\ pending' = pending \cup {tx}
        /\ tx_hash' = h

\* deploy_contract: Contract.constructor().transact({"from": sender})
DeployTransact ==
    /\ pc = "deploy"
    /\ Submit("deploy", [proposalId |-> 0, daoVersion |-> 0])
    /\ pc' = "deploy_wait"
    /\ UNCHANGED <<inputVars, error, rngState, accounts, sender, contract, seq, i, rows,
                   output, receipts, gas_price, deployed, decisionCount, decisions, drawCount,
                   raw,
                   harnessVars>>

\* the deployment transaction is refused
DeployTransactFails ==
    /\ pc = "deploy"
    /\ Abort("DeployError")
    /\ UNCHANGED <<inputVars, rngState, accounts, sender, contract, seq, i, rows,
                   tx_hash, output, ledgerVars, historyVars, harnessVars>>

\* The ledger mines a pending transaction: the constructor creates the
\* contract with empty storage, executeDecision records a decision; the
\* receipt carries the gas used.
Mine ==
    \E tx \in pending :
      \E g \in GasUsedVals(tx.kind) :
        /\ pending' = pending \ {tx}
        /\ receipts' = receipts \cup {[hash |-> tx.hash, gasUsed |-> g]}
        /\ IF tx.kind = "deploy"
           THEN /\ deployed' = TRUE
                /\ decisionCount' = 0
                /\ decisions' = <<>>
           ELSE LET c == executeDecision(decisionCount, decisions, tx.proposalId,
                                         tx.daoVersion, tx.from)
                IN  /\ deployed' = deployed
                    /\ decisionCount' = c.decisionCount
                    /\ decisions' = c.decisions
        /\ UNCHANGED <<inputVars, engineVars, gas_price, historyVars, harnessVars>>

\* deploy_contract: the receipt arrives and the handle is built; then
\* Path("data").mkdir, seq = dao_sequence(NUM_RUNS), rows = [], the loop starts
DeployWait ==
    /\ pc = "deploy_wait"
    /\ \E r \in receipts : r.hash = tx_hash
    /\ contract' = "DAOGovernance"
    /\ seq' = dao_sequence(totalRuns)
    /\ rows' = <<>>
    /\ i' = 1
    /\ pc' = "loop"
    /\ UNCHANGED <<inputVars, error, rngState, accounts, sender, tx_hash, output,
                   ledgerVars, historyVars, harnessVars>>

\* wait_for_transaction_receipt of the deployment raises
DeployWaitFails ==
    /\ pc = "deploy_wait"
    /\ Abort("DeployError")
    /\ UNCHANGED <<inputVars, rngState, accounts, sender, contract, seq, i, rows,
                   tx_hash, output, ledgerVars, historyVars, harnessVars>>

(* ------------------------------- the loop ------------------------------ *)

\* simulate_one, first half: tx = executeDecision(idx, dao_id);
\* tx_hash = tx.transact({"from": sender})
Transact ==
    /\ pc = "loop"
    /\ ~LoopFinished(i, totalRuns)
    /\ Submit("decision", DecisionCall(i, seq[i]))
    /\ pc' = "wait"
    /\ UNCHANGED <<inputVars, error, rngState, accounts, sender, contract, seq, i, rows,
                   output, receipts, gas_price, deployed, decisionCount, decisions, drawCount,
                   raw,
                   harnessVars>>

\* A failed transaction that is caught, and the loop moves on to the next run.
TransactFailsSkipped ==
    /\ pc = "loop"
    /\ ~LoopFinished(i, totalRuns)
    /\ error' = "TransactionError"
    /\ i' = i + 1
    /\ UNCHANGED <<inputVars, pc, rngState, accounts, sender, contract, seq, rows,
                   tx_hash, output, ledgerVars, historyVars, harnessVars>>

\* transact raises (the ledger refuses the transaction): nothing catches it
TransactFails ==
    /\ pc = "loop"
    /\ ~LoopFinished(i, totalRuns)
    /\ Abort("TransactionError")
    /\ UNCHANGED <<inputVars, rngState, accounts, sender, contract, seq, i, rows,
                   tx_hash, output, ledgerVars, historyVars, harnessVars>>

\* simulate_one, second half, and rows.append(r): the receipt arrives, the gas
\* cost is computed, the five metrics are drawn, the row is built and appended
WaitReceipt ==
    /\ pc = "wait"
    /\ \E r \in receipts :
         /\ r.hash = tx_hash
         /\ LET label == seq[i]
                m == Synthesize(rngState, label)
            IN  /\ rngState' = m.st
                /\ drawCount' = drawCount + m.n
                /\ raw' = Append(raw, [lat |-> m.lat, comp |-> m.comp,
                                       offchain |-> m.offchain, total |-> m.total,
                                       roi |-> m.roi])
                /\ rows' = Append(rows, RunRecord(i, label, m,
                                                  GasCost(r.gasUsed, gas_price)))
    /\ i' = i + 1
    /\ pc' = "loop"
    /\ UNCHANGED <<inputVars, error, accounts, sender, contract, seq, tx_hash, output,
                   ledgerVars, txLog, harnessVars>>

\* wait_for_transaction_receipt raises (the receipt cannot be retrieved)
WaitReceiptFails ==
    /\ pc = "wait"
    /\ Abort("TransactionError")
    /\ UNCHANGED <<inputVars, rngState, accounts, sender, contract, seq, i, rows,
                   tx_hash, output, ledgerVars, historyVars, harnessVars>>

\* df = pd.DataFrame(rows); df.to_excel(OUTPUT_XLSX, index=False)
ToExcel ==
    /\ pc = "loop"
    /\ LoopFinished(i, totalRuns)
    /\ output' = Append(output, rows)
    /\ pc' = "done"
    /\ UNCHANGED <<inputVars, error, rngState, accounts, sender, contract, seq, i, rows,
                   tx_hash, ledgerVars, historyVars, harnessVars>>

Next ==
    \/ SetSeed
    \/ Connect
    \/ ConnectFails
    \/ GetAccounts
    \/ NoAccounts
    \/ CompileContract
    \/ CompileFails
    \/ DeployTransact
    \/ DeployTransactFails
    \/ Mine
    \/ DeployWait
    \/ DeployWaitFails
    \/ Transact
    \/ TransactFails
    \/ WaitReceipt
    \/ WaitReceiptFails
    \/ ToExcel

Spec == Init /\ [][Next]_vars

(* -------------------------- two executions ----------------------------- *)

\* The program is started a second time with the same seed and run count,
\* after the first execution has ended: a new process and a newly deployed
\* contract on the same ledger.  The rows of the first execution are kept for comparison.
Rerun ==
    /\ runNo = 1
    /\ pc \in {"done", "aborted"}
    /\ runNo' = 2
    /\ prevRows' = rows
    /\ pc' = "seed"
    /\ error' = "none"
    /\ rngState' = 0
    /\ accounts' = <<>>
    /\ sender' = "none"
    /\ contract' = "none"
    /\ seq' = <<>>
    /\ i' = 0
    /\ rows' = <<>>
    /\ tx_hash' = 0
    /\ output' = <<>>
    /\ pending' = {}
    /\ receipts' = {}
    /\ deployed' = FALSE
    /\ decisionCount' = 0
    /\ decisions' = <<>>
    /\ txLog' = <<>>
    /\ drawCount' = 0
    /\ raw' = <<>>
    /\ UNCHANGED <<inputVars, gas_price, probe>>

NextTwice == Next \/ Rerun

SpecTwice == Init /\ [][NextTwice]_vars

(* ------------------------- classifier harness -------------------------- *)

CompInputs ==
    {COMPLIANCE_MIN, REJECT_COMPLIANCE - 1, REJECT_COMPLIANCE, REJECT_COMPLIANCE + 1,
     COMPLIANCE_VIOLATION_THRESHOLD - 1, COMPLIANCE_VIOLATION_THRESHOLD,
     COMPLIANCE_VIOLATION_THRESHOLD + 1, COMPLIANCE_MAX}

RoiInputs == {ROI_MIN, -50, -1, 0, 1, 50, ROI_MAX}

InitClassify ==
    /\ seed = 0
    /\ totalRuns = 0
    /\ gas_price = 20
    /\ Fresh
    /\ runNo = 1
    /\ prevRows = <<>>
    /\ probe \in [comp : CompInputs, roi : RoiInputs, applied : {FALSE},
                  violation : {""}, outcome : {""}]

\* the two classification lines of simulate_one applied to the pair
Classify ==
    /\ ~probe.applied
    /\ probe' = [probe EXCEPT !.applied = TRUE,
                              !.violation = ComplianceViolation(probe.comp),
                              !.outcome = DecisionOutcome(probe.roi, probe.comp)]
    /\ UNCHANGED <<inputVars, engineVars, ledgerVars, historyVars, runNo, prevRows>>

NextClassify == Classify

SpecClassify == InitClassify /\ [][NextClassify]_vars

(* ------------------------------ properties ----------------------------- *)

CycleLabel(k) == Labels[((k - 1) % 3) + 1]

\* positions of txLog holding an executeDecision transaction
DecisionTxs == {t \in 1..Len(txLog) : txLog[t].kind = "decision"}

\* those among them that have been mined
FinalizedTxs == {t \in DecisionTxs : \E r \in receipts : r.hash = txLog[t].hash}

MinOf(a, b) == IF a < b THEN a ELSE b

\* C1: every produced row has exactly one ledger decision whose proposalId is
\* the row's Simulation ID, and that decision's daoVersion is the profile id
\* of the row's label; when the simulation has completed, the engine has
\* submitted exactly one executeDecision transaction per run, the ledger
\* holds exactly totalRuns decisions and none with a proposalId outside
\* 1..totalRuns.
Correspondence ==
    /\ \A k \in 1..Len(rows) :
         /\ Cardinality({d \in DOMAIN decisions :
                           decisions[d].proposalId = rows[k].SimulationID}) = 1
         /\ \A d \in DOMAIN decisions :
              decisions[d].proposalId = rows[k].SimulationID
                => decisions[d].daoVersion = DAO_STATS[rows[k].DAOGen].id
    /\ pc = "done" =>
         /\ Len(rows) = totalRuns
         /\ decisionCount = totalRuns
         /\ DOMAIN decisions = 1..totalRuns
         /\ \A d \in DOMAIN decisions : decisions[d].proposalId \in 1..totalRuns
         /\ Cardinality(DecisionTxs) = totalRuns
         /\ \A k \in 1..totalRuns :
              Cardinality({t \in DecisionTxs : txLog[t].proposalId = k}) = 1

CorrespondenceWitness ==
    /\ pc = "done"
    /\ totalRuns >= 3
    /\ decisionCount = totalRuns

\* C2: the labels of the produced rows are the first elements of the endless
\* repetition of (DAO 1.0, DAO 2.0, DAO 3.0), row k carrying the label at
\* position (k - 1) mod 3; the Simulation IDs are 1, 2, ... in order; a
\* completed simulation has exactly totalRuns rows, for every totalRuns >= 0.
Sequencing ==
    /\ \A k \in 1..Len(rows) :
         /\ rows[k].SimulationID = k
         /\ rows[k].DAOGen = CycleLabel(k)
    /\ contract # "none" => seq = [k \in 1..totalRuns |-> CycleLabel(k)]
    /\ pc = "done" => Len(rows) = totalRuns

SequencingWitness ==
    /\ pc = "done"
    /\ Len(rows) >= 4
    /\ rows[4].DAOGen = "DAO 1.0"

\* C3 as claimed: read off the stored (rounded) fields of a row, Compliance
\* Violation is Y exactly when Compliance < 80.0 and Decision Outcome is
\* Rejected exactly when ROI < 0 or Compliance < 65.
ClassificationOnStoredFields ==
    \A k \in 1..Len(rows) :
        /\ rows[k].ComplianceViolation = "Y"
             <=> rows[k].Compliance < 80 * Unit
        /\ rows[k].DecisionOutcome = "Rejected"
             <=> (rows[k].ROI < 0 \/ rows[k].Compliance < 65 * Unit)

\* C3 amended: the two flags of a row are decided by the unrounded draws
\* (Y iff the drawn compliance < 80.0, Rejected iff the drawn roi < 0 or the
\* drawn compliance < 65), the row stores those draws rounded, and so the
\* stored fields agree with the flags only up to rounding: stored Compliance
\* < 80.0 implies Y and Y implies stored Compliance <= 80.0; stored ROI < 0
\* or stored Compliance < 65 implies Rejected, and Rejected implies stored
\* ROI <= 0 or stored Compliance <= 65.
ClassificationOnDraws ==
    /\ Len(raw) = Len(rows)
    /\ \A k \in 1..Len(rows) :
         LET r == rows[k]
             y == r.ComplianceViolation = "Y"
             rej == r.DecisionOutcome = "Rejected"
         IN  /\ r.Compliance = Round1(raw[k].comp)
             /\ r.ROI = Round2(raw[k].roi)
             /\ r.ComplianceViolation \in {"Y", "N"}
             /\ r.DecisionOutcome \in {"Rejected", "Accepted"}
             /\ y <=> raw[k].comp < 80 * Unit
             /\ rej <=> (raw[k].roi < 0 \/ raw[k].comp < 65 * Unit)
             /\ r.Compliance < 80 * Unit => y
             /\ y => r.Compliance <= 80 * Unit
             /\ (r.ROI < 0 \/ r.Compliance < 65 * Unit) => rej
             /\ rej => (r.ROI <= 0 \/ r.Compliance <= 65 * Unit)

\* a row flagged Y whose stored Compliance is 80.0
ClassificationWitness ==
    \E k \in 1..Len(rows) :
        /\ rows[k].ComplianceViolation = "Y"
        /\ rows[k].Compliance = 80 * Unit
        /\ raw[k].comp < 80 * Unit

\* C4: in every produced row, as stored, Latency is in [1.5, 19.0],
\* Compliance in [60, 100], ROI in [-0.5, 9.0], Off-Chain Cost in [170, 420]
\* and Total Cost within mean +- 3 std of the profile of the row's own label;
\* and no draw the sampler returned lies outside the range it was given.
Boundedness ==
    /\ Len(raw) = Len(rows)
    /\ \A k \in 1..Len(rows) :
         LET r == rows[k]
             s == DAO_STATS[r.DAOGen]
             lo == s.total_cost_mean - 3 * s.total_cost_std
             hi == s.total_cost_mean + 3 * s.total_cost_std
         IN  /\ 15000 <= r.Latency /\ r.Latency <= 190000
             /\ 60 * Unit <= r.Compliance /\ r.Compliance <= 100 * Unit
             /\ -5000 <= r.ROI /\ r.ROI <= 9 * Unit
             /\ 170 <= r.OffChainCost /\ r.OffChainCost <= 420
             /\ lo <= r.TotalCost * Unit /\ r.TotalCost * Unit <= hi
             /\ 15000 <= raw[k].lat /\ raw[k].lat <= 190000
             /\ 60 * Unit <= raw[k].comp /\ raw[k].comp <= 100 * Unit
             /\ -5000 <= raw[k].roi /\ raw[k].roi <= 9 * Unit
             /\ 170 * Unit <= raw[k].offchain /\ raw[k].offchain <= 420 * Unit
             /\ lo <= raw[k].total /\ raw[k].total <= hi

\* the sampler has rejected a draw, and a row sits on its Total Cost bound
BoundednessWitness ==
    /\ drawCount > 5 * Len(rows)
    /\ \E k \in 1..Len(rows) :
         LET s == DAO_STATS[rows[k].DAOGen]
         IN  rows[k].TotalCost * Unit = s.total_cost_mean + 3 * s.total_cost_std

\* C5: two executions with the same seed and the same totalRuns produce the
\* same synthesized fields row by row, whatever the ledger returned to each;
\* the stream is advanced by the sampler's draws and by nothing else: after
\* seeding, its state is the seed's state advanced once per draw, five
\* accepted draws a row.
Determinism ==
    /\ runNo = 2 =>
         \A k \in 1..MinOf(Len(prevRows), Len(rows)) :
             Metrics(rows[k]) = Metrics(prevRows[k])
    /\ pc # "seed" => rngState = RngAdvance(seed % RngModulus, drawCount)
    /\ drawCount >= 5 * Len(rows)

\* both executions completed, and the ledger charged them differently
DeterminismWitness ==
    /\ runNo = 2
    /\ pc = "done"
    /\ totalRuns >= 2
    /\ Len(prevRows) = totalRuns
    /\ prevRows[1].GasCost # rows[1].GasCost
    /\ prevRows[2].GasCost # rows[2].GasCost

\* C6: when the decision transaction of run i fails (at submission or at the
\* receipt), the simulation is aborted there: no row for run i is appended,
\* the transaction is submitted at most once, no transaction of a later run
\* is ever submitted and nothing is ever written to the workbook.
FailFastOnTransactionError ==
    error = "TransactionError" =>
        /\ pc = "aborted"
        /\ i \in 1..totalRuns
        /\ Len(rows) = i - 1
        /\ output = <<>>
        /\ \A t \in DecisionTxs : txLog[t].proposalId <= i
        /\ Cardinality({t \in DecisionTxs : txLog[t].proposalId = i}) <= 1

\* run 2 failed at the receipt, after run 1 was committed
FailFastWitness ==
    /\ error = "TransactionError"
    /\ i = 2
    /\ Len(rows) = 1
    /\ Cardinality(DecisionTxs) = 2

\* C7: when the ledger is unreachable or exposes no account, the engine stops
\* before run 1: no transaction was submitted (no deployment, no decision),
\* no row produced, nothing written.
ConnectivityAbort ==
    error \in {"ConnectionError", "RuntimeError"} =>
        /\ pc = "aborted"
        /\ txLog = <<>>
        /\ pending = {}
        /\ receipts = {}
        /\ ~deployed
        /\ contract = "none"
        /\ i = 0
        /\ rows = <<>>
        /\ output = <<>>

ConnectivityAbortWitness ==
    /\ error = "RuntimeError"
    /\ pc = "aborted"
    /\ accounts = <<>>

\* C8: for every pair of unrounded values, the classifier gives Y exactly
\* when compliance < 80.0 and Rejected exactly when roi < 0 or compliance <
\* 65, both strictly: compliance 80.0 gives N, roi 0 with compliance >= 65
\* gives Accepted, roi -0.0001 gives Rejected, compliance 65 with roi >= 0
\* gives Accepted; neither flag depends on the other's threshold.
ClassifierThresholds ==
    probe.applied =>
        /\ probe.violation = "Y" <=> probe.comp < 80 * Unit
        /\ probe.violation = "N" <=> probe.comp >= 80 * Unit
        /\ probe.outcome = "Rejected" <=> (probe.roi < 0 \/ probe.comp < 65 * Unit)
        /\ probe.outcome = "Accepted" <=> (probe.roi >= 0 /\ probe.comp >= 65 * Unit)
        /\ probe.comp = 80 * Unit => probe.violation = "N"
        /\ (probe.roi = 0 /\ probe.comp >= 65 * Unit) => probe.outcome = "Accepted"
        /\ probe.roi = -1 => probe.outcome = "Rejected"
        /\ (probe.comp = 65 * Unit /\ probe.roi >= 0) => probe.outcome = "Accepted"

ClassifierWitness ==
    /\ probe.applied
    /\ probe.comp = 80 * Unit
    /\ probe.roi = 0
    /\ probe.violation = "N"
    /\ probe.outcome = "Accepted"

\* C9: at most one transaction is ever pending; the decision stored under
\* decisionId d has proposalId d; decisionCount is the number of runs whose
\* transaction has been mined; the transaction of run i is submitted only
\* when those of runs 1..i-1 have been mined.
LedgerOrdering ==
    /\ Cardinality(pending) <= 1
    /\ \A d \in 1..decisionCount :
         /\ d \in DOMAIN decisions
         /\ decisions[d].proposalId = d
    /\ decisionCount = Cardinality(FinalizedTxs)
    /\ \A t \in DecisionTxs : decisionCount >= txLog[t].proposalId - 1
    /\ pc = "loop" => decisionCount = i - 1

\* two runs are finalized and the third one's transaction is pending
LedgerOrderingWitness ==
    /\ decisionCount = 2
    /\ pc = "wait"
    /\ \E tx \in pending : tx.proposalId = 3

\* C10: the rows only grow, one row per committed run and in run order, and
\* rows once appended never change; a run's row is appended only after its
\* transaction was mined; the workbook is written at most once, only when
\* all totalRuns runs are committed, with exactly those rows in run order.
AppendOnlyEmitLast ==
    /\ [](/\ Len(output) <= 1
          /\ output # <<>> =>
               /\ pc = "done"
               /\ output[1] = rows
               /\ Len(rows) = totalRuns
               /\ \A k \in 1..Len(rows) : rows[k].SimulationID = k
          /\ Len(rows) <= decisionCount
          /\ pc \in {"loop", "wait", "done"} => Len(rows) = i - 1)
    /\ [][\/ rows' = rows
          \/ /\ rows' = Append(rows, rows'[Len(rows')])
             /\ rows'[Len(rows')].SimulationID = Len(rows) + 1
             /\ \E r \in receipts : r.hash = tx_hash]_vars
    /\ [][output # <<>> => output' = output]_vars

AppendOnlyWitness ==
    /\ output # <<>>
    /\ Len(output[1]) >= 3
    /\ pc = "done"

====
